---- MODULE Spec2Model ----
(***************************************************************************)
(* Reiter-style snow-crystal automaton of src/hexagonal_grid.py:           *)
(* class CrystalLattice (construction, neighbour topology, the termination *)
(* test all_ends_frozen and the three-pass diffusion step).                *)
(*                                                                         *)
(* Numbers.  The Python code computes with binary64 floats.  Here a value  *)
(* x is the integer x * Scale (fixed point), and every operation that      *)
(* rounds in binary64 (the division of np.mean, alpha/2, the product)      *)
(* rounds once, to nearest with ties to even, at the fixed-point           *)
(* resolution.  Additions and subtractions are exact.                      *)
(***************************************************************************)
EXTENDS Integers, Sequences, FiniteSets, TLC

\* ------------------------------------------------------------------ bounds
MaxSize  == 3      \* largest lattice radius explored
MaxSteps == 10     \* diffusion() calls that run to completion in one run

\* ----------------------------------------------------------- fixed point
Scale == 10000     \* units per 1.0
One   == Scale     \* the freezing threshold 1 of "state >= 1"

Abs(x) == IF x < 0 THEN -x ELSE x

\* a / b for b > 0, rounded to nearest, ties to even
RoundDiv(a, b) ==
    LET q == a \div b
        r == a % b
    IN  IF 2 * r < b THEN q
        ELSE IF 2 * r > b THEN q + 1
        ELSE IF q % 2 = 0 THEN q ELSE q + 1

\* the product of two fixed-point values
Mul(a, b) == RoundDiv(a * b, Scale)

\* ------------------------------------------------------------- parameters
Sizes  == 1..MaxSize
Alphas == {0, Scale, 2 * Scale}
Betas  == {Scale \div 10, Scale \div 2, Scale}
Gammas == {0, Scale \div 1000, Scale \div 4}

\* values outside the documented ranges, which the constructor also accepts
AnySizes  == 0..MaxSize
AnyAlphas == Alphas \cup {-Scale}
AnyBetas  == Betas \cup {-(Scale \div 2)}
AnyGammas == Gammas \cup {-(Scale \div 4)}

VARIABLES
    size,          \* self.size
    alpha,         \* self.alpha
    beta,          \* self.beta
    gamma,         \* self.gamma
    lattice,       \* self.lattice: coordinate -> Hexagon
    keys,          \* insertion order of self.lattice, the order of .keys()
    frozen_list,   \* the list frozen_list as the last all_ends_frozen() left it
    pc,            \* position of the driver inside diffusion()
    hex_at,        \* position in keys of the cell the running loop visits next
    steps,         \* diffusion() calls that have run to completion
    before,        \* self.lattice as it was when the running (or last) step began
    todo           \* cells the running loop has still to visit (any-order loops)

vars == <<size, alpha, beta, gamma, lattice, keys, frozen_list, pc, hex_at,
          steps, before, todo>>

\* ---------------------------------------------------------------- Hexagon
Hexagon(u, v, state, mean_u, receptive) ==
    [u |-> u, v |-> v, state |-> state, mean_u |-> mean_u,
     receptive |-> receptive]

\* ----------------------------------------------- create_hexagonal_lattice
\* The two nested loops "for q in range(-size, size+1): for r in
\* range(-size, size+1)": the (q, r) pairs in the order the loops visit them.
loop_pairs(n) ==
    [i \in 1..((2 * n + 1) * (2 * n + 1)) |->
        << -n + ((i - 1) \div (2 * n + 1)), -n + ((i - 1) % (2 * n + 1)) >>]

\* left_out with the lower test forgotten
left_out_upper(n, q, r) == (q + r) > n

\* "continue": the pair creates no cell
left_out(n, q, r) == (q + r) > n \/ (q + r) < -n

\* create_hexagonal_lattice with "and" in the test for the centre
create_hexagonal_lattice_and(n, b) ==
    LET made == SelectSeq(loop_pairs(n),
                          LAMBDA qr : ~left_out(n, qr[1], qr[2]))
    IN  [i \in 1..Len(made) |->
            LET q == made[i][1]
                r == made[i][2]
            IN  IF q # 0 /\ r # 0
                THEN << <<r, q>>, Hexagon(b, 0, b, 0, FALSE) >>
                ELSE << <<r, q>>, Hexagon(0, One, One, 0, FALSE) >>]

\* the assignments self.lattice[(r, q)] = Hexagon(...) in the order they are
\* made, each as <<key, value>>
create_hexagonal_lattice(n, b) ==
    LET made == SelectSeq(loop_pairs(n),
                          LAMBDA qr : ~left_out(n, qr[1], qr[2]))
    IN  [i \in 1..Len(made) |->
            LET q == made[i][1]
                r == made[i][2]
            IN  IF q # 0 \/ r # 0
                THEN << <<r, q>>, Hexagon(b, 0, b, 0, FALSE) >>
                ELSE << <<r, q>>, Hexagon(0, One, One, 0, FALSE) >>]

\* the dict built by a sequence of assignments: the last value of a key wins
DictOf(assigns) ==
    [k \in {assigns[i][1] : i \in 1..Len(assigns)} |->
        LET last == CHOOSE i \in 1..Len(assigns) :
                       /\ assigns[i][1] = k
                       /\ \A j \in 1..Len(assigns) :
                              assigns[j][1] = k => j <= i
        IN  assigns[last][2]]

\* the dict's key order: a key keeps the position of its first assignment
KeyOrder(assigns) ==
    LET firsts == SelectSeq([i \in 1..Len(assigns) |-> i],
                      LAMBDA i : \A j \in 1..(i - 1) :
                                     assigns[j][1] # assigns[i][1])
    IN  [i \in 1..Len(firsts) |-> assigns[firsts[i]][1]]

\* ---------------------------------------------------------- get_neighbours
\* get_neighbours with the offset of neighbour 6 mistyped as (q+1, r+1)
get_neighbours_skew(lat, hexagon_coordinates) ==
    LET q == hexagon_coordinates[1]
        r == hexagon_coordinates[2]
        neighbourhood == << <<q, r - 1>>, <<q + 1, r - 1>>, <<q + 1, r>>,
                            <<q, r + 1>>, <<q - 1, r + 1>>, <<q + 1, r + 1>> >>
    IN  SelectSeq(neighbourhood, LAMBDA qr : qr \in DOMAIN lat)

get_neighbours(lat, hexagon_coordinates) ==
    LET q == hexagon_coordinates[1]
        r == hexagon_coordinates[2]
        neighbourhood == << <<q, r - 1>>, <<q + 1, r - 1>>, <<q + 1, r>>,
                            <<q, r + 1>>, <<q - 1, r + 1>>, <<q - 1, r>> >>
    IN  SelectSeq(neighbourhood, LAMBDA qr : qr \in DOMAIN lat)

\* -------------------------------------------------------- umean_neighbours
RECURSIVE SumU(_, _, _)
SumU(lat, ns, i) ==
    IF i > Len(ns) THEN 0 ELSE lat[ns[i]].u + SumU(lat, ns, i + 1)

umean_neighbours(lat, coordinates) ==
    LET ns == get_neighbours(lat, coordinates)
    IN  RoundDiv(SumU(lat, ns, 1), Len(ns))

\* ------------------------------------------------------------ if_receptive
\* if_receptive without the loop over the neighbours
if_receptive_self(lat, hexagon_coordinates) ==
    lat[hexagon_coordinates].state >= One

if_receptive(lat, hexagon_coordinates) ==
    \/ lat[hexagon_coordinates].state >= One
    \/ LET ns == get_neighbours(lat, hexagon_coordinates)
       IN  \E i \in 1..Len(ns) : lat[ns[i]].state >= One

\* --------------------------------------------------------- all_ends_frozen
\* coordinates of the ends of the main branches (a Python set literal)
branch_ends(n) ==
    { <<-(n - 1), n - 1>>, <<n - 1, -(n - 1)>>, <<0, n - 1>>,
      <<0, -(n - 1)>>, <<n - 1, 0>>, <<-(n - 1), 0>> }

\* frozen_ends after the first loop
frozen_ends(n, lat) ==
    Cardinality({coordinate \in branch_ends(n) : lat[coordinate].state >= One})

\* frozen after the second loop
frozen_cells(lat) ==
    Cardinality({hex \in DOMAIN lat : lat[hex].state >= One})

\* frozen_list = [0] followed by frozen_list.append(frozen)
new_frozen_list(lat) == Append(<<0>>, frozen_cells(lat))

\* all_ends_frozen with "and" in place of "or"
all_ends_frozen_both(n, lat) ==
    LET fl == new_frozen_list(lat)
    IN  /\ frozen_ends(n, lat) = 6
        /\ fl[Len(fl)] = fl[Len(fl) - 1]

\* the test of the final if: TRUE is the branch that prints, saves the image
\* and calls sys.exit(); FALSE is "return False"
all_ends_frozen(n, lat) ==
    LET fl == new_frozen_list(lat)
    IN  \/ frozen_ends(n, lat) = 6
        \/ fl[Len(fl)] = fl[Len(fl) - 1]

\* self.lattice[coordinate] raises KeyError for a coordinate not in the dict
ends_lookup_fails(n, lat) == \E coordinate \in branch_ends(n) :
                                 coordinate \notin DOMAIN lat

\* ------------------------------------------------- diffusion: the 3 passes
\* mean_cell on a dict that creates an empty cell for every neighbouring
\* coordinate it is asked about (a defaultdict)
mean_cell_spill(lat, hex) ==
    LET q == hex[1]
        r == hex[2]
        asked == { <<q, r - 1>>, <<q + 1, r - 1>>, <<q + 1, r>>,
                   <<q, r + 1>>, <<q - 1, r + 1>>, <<q - 1, r>> }
        grown == [c \in DOMAIN lat \cup asked |->
                     IF c \in DOMAIN lat THEN lat[c]
                                         ELSE Hexagon(0, 0, 0, 0, FALSE)]
    IN  [grown EXCEPT ![hex].mean_u = umean_neighbours(lat, hex)]

\* body of the first loop
mean_cell(lat, hex) ==
    [lat EXCEPT ![hex].mean_u = umean_neighbours(lat, hex)]

\* reset_cell that zeroes v of a receptive cell as well
reset_cell_drop(lat, hex) ==
    [lat EXCEPT ![hex] =
        IF if_receptive(lat, hex)
        THEN [lat[hex] EXCEPT !.u = 0,
                              !.v = 0,
                              !.receptive = TRUE]
        ELSE [lat[hex] EXCEPT !.u = lat[hex].state,
                              !.v = 0]]

\* body of the second loop
reset_cell(lat, hex) ==
    [lat EXCEPT ![hex] =
        IF if_receptive(lat, hex)
        THEN [lat[hex] EXCEPT !.u = 0,
                              !.v = lat[hex].state,
                              !.receptive = TRUE]
        ELSE [lat[hex] EXCEPT !.u = lat[hex].state,
                              !.v = 0]]

\* update_cell that sums the state before gamma is added to v
update_cell_stale(lat, hex, a, g) ==
    LET u1 == lat[hex].u + Mul(RoundDiv(a, 2), lat[hex].mean_u - lat[hex].u)
        v1 == IF lat[hex].receptive THEN lat[hex].v + g ELSE lat[hex].v
    IN  [lat EXCEPT ![hex].u = u1, ![hex].v = v1,
                    ![hex].state = u1 + lat[hex].v]

\* update_cell without the growth increment
update_cell_dry(lat, hex, a, g) ==
    LET u1 == lat[hex].u + Mul(RoundDiv(a, 2), lat[hex].mean_u - lat[hex].u)
        v1 == lat[hex].v
    IN  [lat EXCEPT ![hex].u = u1, ![hex].v = v1, ![hex].state = u1 + v1]

\* update_cell with the sign of the relaxation term reversed
update_cell_minus(lat, hex, a, g) ==
    LET u1 == lat[hex].u - Mul(RoundDiv(a, 2), lat[hex].mean_u - lat[hex].u)
        v1 == IF lat[hex].receptive THEN lat[hex].v + g ELSE lat[hex].v
    IN  [lat EXCEPT ![hex].u = u1, ![hex].v = v1, ![hex].state = u1 + v1]

\* update_cell that takes the neighbours' mean of u as it is now, not the
\* mean_u the first loop stored
update_cell_live(lat, hex, a, g) ==
    LET u1 == lat[hex].u
                + Mul(RoundDiv(a, 2), umean_neighbours(lat, hex) - lat[hex].u)
        v1 == IF lat[hex].receptive THEN lat[hex].v + g ELSE lat[hex].v
    IN  [lat EXCEPT ![hex].u = u1, ![hex].v = v1, ![hex].state = u1 + v1]

\* body of the third loop
update_cell(lat, hex, a, g) ==
    LET u1 == lat[hex].u + Mul(RoundDiv(a, 2), lat[hex].mean_u - lat[hex].u)
        v1 == IF lat[hex].receptive THEN lat[hex].v + g ELSE lat[hex].v
    IN  [lat EXCEPT ![hex].u = u1, ![hex].v = v1, ![hex].state = u1 + v1]

\* ------------------------------------------------------------ construction
\* CrystalLattice(lattice_size, alpha, beta, gamma)
Construct(n, a, b, g) ==
    LET assigns == create_hexagonal_lattice(n, b)
    IN  /\ size = n
        /\ alpha = a
        /\ beta = b
        /\ gamma = g
        /\ lattice = DictOf(assigns)
        /\ keys = KeyOrder(assigns)
        /\ frozen_list = << >>
        /\ pc = "idle"
        /\ hex_at = 0
        /\ steps = 0
        /\ before = DictOf(assigns)
        /\ todo = {}

Init ==
    \E n \in Sizes, a \in Alphas, b \in Betas, g \in Gammas :
        Construct(n, a, b, g)

InitAny ==
    \E n \in AnySizes, a \in AnyAlphas, b \in AnyBetas, g \in AnyGammas :
        Construct(n, a, b, g)

\* ----------------------------------------------------------------- actions
\* diffusion() that goes on to the three passes whatever the test says
diffusion_check_continue ==
    /\ pc = "idle"
    /\ steps < MaxSteps
    /\ IF ends_lookup_fails(size, lattice)
       THEN /\ pc' = "keyerror"
            /\ UNCHANGED <<frozen_list, hex_at, before>>
       ELSE /\ frozen_list' = new_frozen_list(lattice)
            /\ pc' = "mean"
            /\ hex_at' = 1
            /\ before' = lattice
    /\ UNCHANGED <<size, alpha, beta, gamma, lattice, keys, steps, todo>>

\* diffusion(), line 162: the call of all_ends_frozen().  The lookup of a
\* branch end that is no key raises KeyError out of diffusion(); sys.exit()
\* ends the process; "return False" lets the first loop start.
diffusion_check ==
    /\ pc = "idle"
    /\ steps < MaxSteps
    /\ IF ends_lookup_fails(size, lattice)
       THEN /\ pc' = "keyerror"
            /\ UNCHANGED <<frozen_list, hex_at, before>>
       ELSE /\ frozen_list' = new_frozen_list(lattice)
            /\ IF all_ends_frozen(size, lattice)
               THEN pc' = "exited" /\ UNCHANGED <<hex_at, before>>
               ELSE pc' = "mean" /\ hex_at' = 1 /\ before' = lattice
    /\ UNCHANGED <<size, alpha, beta, gamma, lattice, keys, steps, todo>>

\* The three loops "for hex in self.lattice.keys()" update the dict in place,
\* cell after cell in key order; one iteration is one step of the model.

\* diffusion(), first loop: one iteration, mean_u of the cell keys[hex_at]
diffusion_mean ==
    /\ pc = "mean"
    /\ lattice' = mean_cell(lattice, keys[hex_at])
    /\ IF hex_at < Len(keys)
       THEN pc' = pc /\ hex_at' = hex_at + 1
       ELSE pc' = "reset" /\ hex_at' = 1
    /\ UNCHANGED <<size, alpha, beta, gamma, keys, frozen_list, steps, before,
                   todo>>

\* diffusion(), second loop: one iteration, classification and reset of u, v
diffusion_reset ==
    /\ pc = "reset"
    /\ lattice' = reset_cell(lattice, keys[hex_at])
    /\ IF hex_at < Len(keys)
       THEN pc' = pc /\ hex_at' = hex_at + 1
       ELSE pc' = "update" /\ hex_at' = 1
    /\ UNCHANGED <<size, alpha, beta, gamma, keys, frozen_list, steps, before,
                   todo>>

\* diffusion(), third loop: one iteration of Reiter's update; after the last
\* one the call returns
diffusion_update ==
    /\ pc = "update"
    /\ lattice' = update_cell(lattice, keys[hex_at], alpha, gamma)
    /\ IF hex_at < Len(keys)
       THEN pc' = pc /\ hex_at' = hex_at + 1 /\ steps' = steps
       ELSE pc' = "idle" /\ hex_at' = 0 /\ steps' = steps + 1
    /\ UNCHANGED <<size, alpha, beta, gamma, keys, frozen_list, before, todo>>

Next ==
    \/ diffusion_check
    \/ diffusion_mean
    \/ diffusion_reset
    \/ diffusion_update

Spec     == Init /\ [][Next]_vars
SpecAny  == InitAny /\ [][Next]_vars
\* the driver calls diffusion() again and again until the process exits
FairSpec == Init /\ [][Next]_vars /\ WF_vars(Next)

\* lattices of radius 2 and more whose growth increment is large enough for
\* every run to finish within MaxSteps steps, called again and again
GrowGammas == {Scale \div 2, Scale}

InitGrow ==
    \E n \in 2..MaxSize, a \in Alphas, b \in Betas \cup {0}, g \in GrowGammas :
        Construct(n, a, b, g)

FairGrow == InitGrow /\ [][Next]_vars /\ WF_vars(Next)

\* CrystalLattice(3, 1.25, 0.8, -0.3): a run in which frozen cells melt again
InitMelt ==
    Construct(3, Scale + Scale \div 4, (8 * Scale) \div 10, -((3 * Scale) \div 10))

SpecMelt == InitMelt /\ [][Next]_vars

\* ------------------------------------- diffusion with loops in any order
\* The same call with "for hex in self.lattice" visiting the cells in an
\* arbitrary order: todo holds the cells a loop has not visited yet.
diffusion_check_any ==
    /\ pc = "idle"
    /\ steps < MaxSteps
    /\ IF ends_lookup_fails(size, lattice)
       THEN /\ pc' = "keyerror"
            /\ UNCHANGED <<frozen_list, before, todo>>
       ELSE /\ frozen_list' = new_frozen_list(lattice)
            /\ IF all_ends_frozen(size, lattice)
               THEN pc' = "exited" /\ UNCHANGED <<before, todo>>
               ELSE /\ pc' = "mean"
                    /\ before' = lattice
                    /\ todo' = DOMAIN lattice
    /\ UNCHANGED <<size, alpha, beta, gamma, lattice, keys, steps, hex_at>>

diffusion_mean_any ==
    /\ pc = "mean"
    /\ \E hex \in todo :
           /\ lattice' = mean_cell(lattice, hex)
           /\ IF todo = {hex}
              THEN pc' = "reset" /\ todo' = DOMAIN lattice
              ELSE pc' = pc /\ todo' = todo \ {hex}
    /\ UNCHANGED <<size, alpha, beta, gamma, keys, frozen_list, steps, before,
                   hex_at>>

diffusion_reset_any ==
    /\ pc = "reset"
    /\ \E hex \in todo :
           /\ lattice' = reset_cell(lattice, hex)
           /\ IF todo = {hex}
              THEN pc' = "update" /\ todo' = DOMAIN lattice
              ELSE pc' = pc /\ todo' = todo \ {hex}
    /\ UNCHANGED <<size, alpha, beta, gamma, keys, frozen_list, steps, before,
                   hex_at>>

diffusion_update_any ==
    /\ pc = "update"
    /\ \E hex \in todo :
           /\ lattice' = update_cell(lattice, hex, alpha, gamma)
           /\ IF todo = {hex}
              THEN pc' = "idle" /\ todo' = {} /\ steps' = steps + 1
              ELSE pc' = pc /\ todo' = todo \ {hex} /\ steps' = steps
    /\ UNCHANGED <<size, alpha, beta, gamma, keys, frozen_list, before, hex_at>>

NextAnyOrder ==
    \/ diffusion_check_any
    \/ diffusion_mean_any
    \/ diffusion_reset_any
    \/ diffusion_update_any

\* the lattices of radius 1
InitOrder ==
    \E a \in Alphas, b \in Betas, g \in Gammas : Construct(1, a, b, g)

SpecOrder == InitOrder /\ [][NextAnyOrder]_vars

TypeOK ==
    /\ size \in AnySizes
    /\ pc \in {"idle", "mean", "reset", "update", "exited", "keyerror"}
    /\ steps \in 0..MaxSteps
    /\ hex_at \in 0..Len(keys)
    /\ Len(keys) = Cardinality(DOMAIN lattice)
    /\ DOMAIN before = DOMAIN lattice
    /\ todo \subseteq DOMAIN lattice

\* ================================================================= claims
Cells == DOMAIN lattice
Centre == <<0, 0>>
NeighbourSet(c) ==
    LET ns == get_neighbours(lattice, c) IN {ns[i] : i \in 1..Len(ns)}
\* no diffusion() call is part-way through its passes
BetweenCalls == pc \in {"idle", "exited", "keyerror"}
\* the parameter ranges of claim C4
ValidRates == alpha >= 0 /\ alpha <= 2 * Scale /\ beta >= 0 /\ gamma >= 0
\* the six branch tips all have state >= 1
AllTipsFrozen ==
    \A c \in branch_ends(size) : c \in Cells /\ lattice[c].state >= One

\* C1: right after construction and after every completed diffusion() call,
\* every cell has state = u + v, whatever the parameters.
C1_StateIsSum ==
    BetweenCalls =>
        \A c \in Cells : lattice[c].state = lattice[c].u + lattice[c].v

\* a completed step has left some cell with both a mobile and a retained part
C1_Witness ==
    /\ pc = "idle"
    /\ steps >= 2
    /\ \E c \in Cells : lattice[c].u > 0 /\ lattice[c].v > 0

\* C2: a convergence check whose frozen-cell count equals the count of the
\* check before it reports convergence.
C2_StallReports ==
    [][(/\ pc = "idle"
        /\ frozen_list # << >>
        /\ frozen_cells(lattice) = frozen_list[Len(frozen_list)]
        /\ pc' # "idle")
       => pc' = "exited"]_vars

\* C3: for every size >= 1 (size 1 included), a convergence check made while
\* all six branch tips have state >= 1 reports convergence.
C3_TipsReport ==
    [][(/\ pc = "idle"
        /\ size >= 1
        /\ AllTipsFrozen
        /\ pc' # "idle")
       => pc' = "exited"]_vars

\* C4: with alpha in [0, 2], beta >= 0 and gamma >= 0, no step lowers the
\* state of a cell that has been classified receptive, and no step takes a
\* cell with state >= 1 below 1.
C4_Monotone ==
    [][ValidRates =>
         \A c \in Cells :
            /\ lattice[c].receptive => lattice'[c].state >= lattice[c].state
            /\ lattice[c].state >= One => lattice'[c].state >= One]_vars

\* a cell other than the seed has grown past the threshold
C4_Witness ==
    /\ ValidRates
    /\ pc = "idle"
    /\ steps >= 2
    /\ \E c \in Cells \ {Centre} :
          lattice[c].receptive /\ lattice[c].state > One /\ beta < One

\* C5: the run with size 3, alpha 1.0, beta 0.5, gamma 0.001, stepped again
\* and again, ends with the convergence report after fewer than 5000 steps.
C5_Scenario ==
    /\ size = 3
    /\ alpha = Scale
    /\ beta = Scale \div 2
    /\ gamma = Scale \div 1000

C5_Converges == C5_Scenario => <>(pc = "exited" /\ steps < 5000)

\* the scenario has reported convergence, all six tips frozen
C5_Witness ==
    /\ C5_Scenario
    /\ pc = "exited"
    /\ steps > 0
    /\ frozen_ends(size, lattice) = 6

\* C6: a run with gamma = 0 reports convergence within a small number of
\* steps (here: before MaxSteps steps have run to completion).
C6_StallConverges == gamma = 0 => steps < MaxSteps

C8_Boundary ==
    (size = 1 /\ steps = 1 /\ pc = "idle") =>
        /\ Cardinality(Cells) = 7
        /\ \A c \in Cells \ {Centre} : lattice[c].receptive
        /\ lattice[Centre].state >= One

\* one step done on a size-1 lattice whose outer cells are not frozen
\* themselves: they are receptive through the centre only
C8_Witness ==
    /\ size = 1
    /\ steps = 1
    /\ pc = "idle"
    /\ \A c \in Cells \ {Centre} : lattice[c].state < One /\ lattice[c].receptive

\* C9: for size >= 1, get_neighbours(c) of every cell c has between 3 and 6
\* coordinates, all cells of the lattice, none of them c, and c is among
\* the neighbours of each of them.
C9_Neighbours ==
    size >= 1 =>
        \A c \in Cells :
            LET ns == get_neighbours(lattice, c)
            IN  /\ Len(ns) >= 3
                /\ Len(ns) <= 6
                /\ Cardinality(NeighbourSet(c)) = Len(ns)
                /\ NeighbourSet(c) \subseteq Cells
                /\ c \notin NeighbourSet(c)
                /\ \A d \in NeighbourSet(c) : c \in NeighbourSet(d)

\* a lattice with corner cells (3 neighbours), edge cells (4) and inner
\* cells (6)
C9_Witness ==
    /\ size = 2
    /\ \E c \in Cells : Cardinality(NeighbourSet(c)) = 3
    /\ \E c \in Cells : Cardinality(NeighbourSet(c)) = 4
    /\ \E c \in Cells : Cardinality(NeighbourSet(c)) = 6

\* C10: for size n >= 0 the coordinate set is {(q, r) : |q| <= n, |r| <= n,
\* |q + r| <= n} and has 3n^2 + 3n + 1 cells.
C10_Region ==
    /\ Cells = {qr \in ((-size - 1)..(size + 1)) \X ((-size - 1)..(size + 1)) :
                   /\ Abs(qr[1]) <= size
                   /\ Abs(qr[2]) <= size
                   /\ Abs(qr[1] + qr[2]) <= size}
    /\ Cardinality(Cells) = 3 * size * size + 3 * size + 1

\* the degenerate lattice of size 0: the centre alone
C10_Witness == size = 0 /\ Cells = {Centre}

\* the state the constructor leaves: no diffusion() call has begun
JustConstructed == pc = "idle" /\ steps = 0 /\ frozen_list = << >>

\* C11: immediately after construction the centre cell (0,0) has state = 1,
\* v = 1 and u = 0, and every other cell has state = beta, u = beta and v = 0.
C11_Seed ==
    JustConstructed =>
        \A c \in Cells :
            IF c = Centre
            THEN /\ lattice[c].state = One
                 /\ lattice[c].v = One
                 /\ lattice[c].u = 0
            ELSE /\ lattice[c].state = beta
                 /\ lattice[c].u = beta
                 /\ lattice[c].v = 0

C11_Witness ==
    /\ JustConstructed
    /\ size = 2
    /\ beta = Scale \div 2
    /\ lattice[Centre].v = One
    /\ lattice[<<1, -1>>].u = Scale \div 2
    /\ lattice[<<0, 2>>].state = Scale \div 2

\* the configurations the constructor is documented to refuse
InvalidConfiguration == size < 1 \/ alpha < 0 \/ beta < 0 \/ gamma < 0

\* C12: constructing with size < 1 or with a negative alpha, beta or gamma
\* fails with InvalidConfiguration and leaves no usable lattice: no state of
\* a run holds such a configuration together with a lattice to step.
C12_Rejects ==
    InvalidConfiguration => (pc = "InvalidConfiguration" /\ Cells = {})

\* C13: no step of a diffusion() call (the convergence check included) adds
\* or removes a cell, or changes size, alpha, beta or gamma.
C13_Frame ==
    [][/\ DOMAIN lattice' = DOMAIN lattice
       /\ size' = size
       /\ alpha' = alpha
       /\ beta' = beta
       /\ gamma' = gamma]_vars

C13_Witness ==
    /\ steps >= 2
    /\ pc = "exited"
    /\ size = 3
    /\ Cardinality(Cells) = 37
    /\ \E c \in Cells : lattice[c].state # before[c].state

\* the cells of the lattice at hexagonal distance 1 from c
Around(c) ==
    {d \in Cells : <<d[1] - c[1], d[2] - c[2]>> \in
                      { <<0, -1>>, <<1, -1>>, <<1, 0>>,
                        <<0, 1>>, <<-1, 1>>, <<-1, 0>> }}

\* c is frozen, or has a frozen neighbour, in the lattice pre
Rec(pre, c) ==
    pre[c].state >= One \/ \E d \in Around(c) : pre[d].state >= One

\* a step has run to completion and nothing has run since
StepDone == pc \in {"idle", "exited"} /\ steps >= 1

\* C14: a completed step leaves every cell c with
\* u = u0 + alpha/2 * (m - u0), v = (pre-step state + gamma if rec else 0)
\* and state = u + v, where m is the mean of the pre-step u of c's
\* neighbours, rec says that c or a neighbour of c had pre-step state >= 1,
\* and u0 is 0 if rec and the pre-step state of c otherwise.
C14_Step ==
    StepDone =>
        \A c \in Cells :
            LET m   == umean_neighbours(before, c)
                rec == Rec(before, c)
                u0  == IF rec THEN 0 ELSE before[c].state
                u1  == u0 + Mul(RoundDiv(alpha, 2), m - u0)
                v1  == IF rec THEN before[c].state + gamma ELSE 0
            IN  /\ lattice[c].u = u1
                /\ lattice[c].v = v1
                /\ lattice[c].state = u1 + v1

\* C15: once the second loop of a step has finished, the receptive flag of
\* every cell equals "the cell or one of its neighbours had state >= 1 when
\* the step began"; a cell that was neither frozen nor next to a frozen cell
\* has receptive = FALSE.
C15_Flags ==
    pc = "update" =>
        \A c \in Cells : lattice[c].receptive = Rec(before, c)

\* what one step makes of cell c of the lattice pre, written without any
\* visiting order: the flag stays set once set
ExpectedCell(pre, c) ==
    LET m    == umean_neighbours(pre, c)
        rec  == Rec(pre, c)
        flag == pre[c].receptive \/ rec
        u0   == IF rec THEN 0 ELSE pre[c].state
        v0   == IF rec THEN pre[c].state ELSE 0
        u1   == u0 + Mul(RoundDiv(alpha, 2), m - u0)
        v1   == IF flag THEN v0 + gamma ELSE v0
    IN  Hexagon(u1, v1, u1 + v1, m, flag)

\* C16: whatever the order in which each of the three loops visits the
\* cells, a step leaves every cell with the u, v, state, mean_u and receptive
\* that depend only on the lattice before the step and on the parameters:
\* every cell the third loop has visited, and every cell after the step, holds
\* exactly these values.
C16_AnyOrder ==
    /\ StepDone => \A c \in Cells : lattice[c] = ExpectedCell(before, c)
    /\ pc = "update" =>
           \A c \in Cells \ todo : lattice[c] = ExpectedCell(before, c)

\* the third loop has visited the last key of the dict but not the first
C16_Witness ==
    /\ pc = "update"
    /\ steps >= 2
    /\ keys[1] \in todo
    /\ keys[Len(keys)] \notin todo
    /\ alpha > 0
    /\ gamma > 0
    /\ lattice[keys[Len(keys)]] # before[keys[Len(keys)]]

\* C17: with alpha in [0, 2], beta >= 0 and gamma >= 0 every cell has
\* u >= 0, v >= 0 and state >= 0 in every state of every run, the states
\* part-way through a step included.
C17_NonNegative ==
    ValidRates =>
        \A c \in Cells : /\ lattice[c].u >= 0
                         /\ lattice[c].v >= 0
                         /\ lattice[c].state >= 0

C17_Witness ==
    /\ ValidRates
    /\ steps >= 3
    /\ pc = "idle"
    /\ \E c \in Cells : lattice[c].u > 0 /\ lattice[c].v > 0
    /\ \E c \in Cells : /\ lattice[c].v = 0
                        /\ lattice[c].u > 0
                        /\ lattice[c].u < beta

\* C18: in every run no cell is looked up by a coordinate that is not a key
\* of the lattice: the tip lookups of all_ends_frozen never raise, the loops
\* visit keys only, and every neighbour that is read is a key.
C18_NoLookupFails ==
    /\ pc # "keyerror"
    /\ hex_at > 0 => keys[hex_at] \in Cells
    /\ \A c \in Cells : NeighbourSet(c) \subseteq Cells

\* the frozen cells
Frozen == {c \in Cells : lattice[c].state >= One}

\* the frozen cells that a path of neighbouring frozen cells joins to S
RECURSIVE FrozenFrom(_)
FrozenFrom(S) ==
    LET T == S \cup {d \in Frozen : \E c \in S : d \in Around(c)}
    IN  IF T = S THEN S ELSE FrozenFrom(T)

\* C19: with beta < 1 and alpha in [0, 2], a cell whose state was below 1
\* when a step began has state >= 1 afterwards only if that step classified
\* it receptive; a cell the step classified non-receptive is left with
\* u <= beta and v = 0; and in every state the frozen cells include (0, 0)
\* and are connected under the neighbour relation.
C19_Connected ==
    (beta < One /\ alpha >= 0 /\ alpha <= 2 * Scale) =>
        /\ \A c \in Cells :
               (before[c].state < One /\ lattice[c].state >= One)
                   => Rec(before, c)
        /\ StepDone =>
               \A c \in Cells :
                   ~Rec(before, c) => (lattice[c].u <= beta /\ lattice[c].v = 0)
        /\ Centre \in Frozen
        /\ FrozenFrom({Centre}) = Frozen

====
